---- MODULE Spec2Model ----
(***************************************************************************)
(* Build options of move-fuzz (options.rs): the BuildOptions value, its    *)
(* Display implementations (the flag string) and the clap parser that the  *)
(* #[arg] declarations derive, with the round trip the unit test performs: *)
(* BuildOptions::parse_from(case.to_string().split(' ')).                  *)
(* Strings are sequences of one-character strings.                         *)
(***************************************************************************)
EXTENDS Integers, Sequences, FiniteSets

VARIABLES pc, case, str, argv, result, shown

vars == <<pc, case, str, argv, result, shown>>

(* ---- bounds ---- *)
\* longest string value given to a string field
MaxStrLen == 1
\* number of fields a constructed value overrides (struct update syntax)
MaxOverrides == 2
\* number of command-line tokens after the program name
MaxArgs == 3
\* largest bytecode version constructed
MaxVersion == 10

(* ---- strings ---- *)
\* characters of the string values: two letters, the separator split() uses,
\* and the character clap strips between a flag and its value
Chars == {"a", "b", " ", "="}

RECURSIVE StringsOfLen(_)
StringsOfLen(n) ==
  IF n = 0 THEN {<<>>}
  ELSE {Append(s, c) : s \in StringsOfLen(n - 1), c \in Chars}

Strings == UNION {StringsOfLen(n) : n \in 0..MaxStrLen}

RECURSIVE Concat(_)
\* the concatenation of a sequence of strings
Concat(ss) == IF ss = <<>> THEN <<>> ELSE Head(ss) \o Concat(Tail(ss))

\* Option<T>: None is the empty sequence, Some(v) a sequence of one value
None == <<>>
Some(v) == <<v>>

(* ---- enum Sanitizer ---- *)
Sanitizer == {"Address", "Leak", "Memory", "Thread", "None"}

\* a Display that leaves out the default variant and names the others
SanitizerFmtSwapped(s) ==
  CASE s = "Address" -> <<>>
    [] s = "Leak" -> <<"l", "e", "a", "k">>
    [] s = "Memory" -> <<"m", "e", "m", "o", "r", "y">>
    [] s = "Thread" -> <<"t", "h", "r", "e", "a", "d">>
    [] s = "None" -> <<"n", "o", "n", "e">>

\* impl Display for Sanitizer
SanitizerFmt(s) ==
  CASE s = "Address" -> <<"a", "d", "d", "r", "e", "s", "s">>
    [] s = "Leak" -> <<"l", "e", "a", "k">>
    [] s = "Memory" -> <<"m", "e", "m", "o", "r", "y">>
    [] s = "Thread" -> <<"t", "h", "r", "e", "a", "d">>
    [] s = "None" -> <<>>

(* ---- u32 formatting ---- *)
Digits == <<"0", "1", "2", "3", "4", "5", "6", "7", "8", "9">>

RECURSIVE U32Fmt(_)
\* Display for u32: the decimal digits, most significant first
U32Fmt(n) ==
  IF n < 10 THEN <<Digits[n + 1]>>
  ELSE Append(U32Fmt(n \div 10), Digits[(n % 10) + 1])

\* crate::utils::default_target(): the host's target triple
DefaultTarget == <<"x", "8", "6", "_", "6", "4">>

(* ---- the option structs ---- *)
DefaultMoveOptions ==
  [bytecode_version |-> None, fetch_deps_only |-> FALSE, force |-> FALSE,
   skip_fetch_latest_git_deps |-> FALSE]

DefaultCargoOptions ==
  [release |-> FALSE, debug_assertions |-> FALSE, no_default_features |-> FALSE,
   all_features |-> FALSE, features |-> None, sanitizer |-> "Address",
   build_std |-> FALSE, careful_mode |-> FALSE, triple |-> DefaultTarget,
   unstable_flags |-> <<>>, coverage |-> FALSE, strip_dead_code |-> FALSE,
   no_cfg_fuzzing |-> FALSE, no_trace_compares |-> FALSE]

DefaultOpts ==
  [dev |-> FALSE, verbose |-> FALSE, target_dir |-> None,
   move_options |-> DefaultMoveOptions, cargo_options |-> DefaultCargoOptions]

(* ---- Display ---- *)
\* what one `if self.flag { write!(f, text) }` writes
WriteIf(b, text) == IF b THEN text ELSE <<>>

\* what one `if let Some(v) = &self.field { write!(f, "text{}", v) }` writes
WriteSome(opt, text) == IF opt = None THEN <<>> ELSE text \o opt[1]

\* a Display that forgets the last field
MoveFmtNoSkip(m) ==
  Concat(<<
    IF m.bytecode_version = None THEN <<>>
    ELSE <<" ", "-", "-", "b", "y", "t", "e", "c", "o", "d", "e", "-", "v", "e", "r", "s", "i", "o", "n", "=">> \o U32Fmt(m.bytecode_version[1]),
    WriteIf(m.fetch_deps_only, <<" ", "-", "-", "f", "e", "t", "c", "h", "-", "d", "e", "p", "s", "-", "o", "n", "l", "y">>),
    WriteIf(m.force, <<" ", "-", "-", "f", "o", "r", "c", "e">>) >>)

\* impl Display for MoveBuildOptions
MoveFmt(m) ==
  Concat(<<
    IF m.bytecode_version = None THEN <<>>
    ELSE <<" ", "-", "-", "b", "y", "t", "e", "c", "o", "d", "e", "-", "v", "e", "r", "s", "i", "o", "n", "=">> \o U32Fmt(m.bytecode_version[1]),
    WriteIf(m.fetch_deps_only, <<" ", "-", "-", "f", "e", "t", "c", "h", "-", "d", "e", "p", "s", "-", "o", "n", "l", "y">>),
    WriteIf(m.force, <<" ", "-", "-", "f", "o", "r", "c", "e">>),
    WriteIf(m.skip_fetch_latest_git_deps, <<" ", "-", "-", "s", "k", "i", "p", "-", "f", "e", "t", "c", "h", "-", "l", "a", "t", "e", "s", "t", "-", "g", "i", "t", "-", "d", "e", "p", "s">>) >>)

\* a match without the arm for Sanitizer::None
SanitizerArgNoNone(s) ==
  CASE s = "Address" -> <<>>
    [] OTHER -> <<" ", "-", "-", "s", "a", "n", "i", "t", "i", "z", "e", "r", "=">> \o SanitizerFmt(s)

\* the sanitizer arm of impl Display for CargoBuildOptions
SanitizerArg(s) ==
  CASE s = "None" -> <<" ", "-", "-", "s", "a", "n", "i", "t", "i", "z", "e", "r", "=", "n", "o", "n", "e">>
    [] s = "Address" -> <<>>
    [] OTHER -> <<" ", "-", "-", "s", "a", "n", "i", "t", "i", "z", "e", "r", "=">> \o SanitizerFmt(s)

RECURSIVE UnstableFmtReversed(_)
\* a loop that writes the last flag first
UnstableFmtReversed(flags) ==
  IF flags = <<>> THEN <<>>
  ELSE UnstableFmtReversed(Tail(flags)) \o <<" ", "-", "Z">> \o Head(flags)

RECURSIVE UnstableFmt(_)
\* the loop over unstable_flags of impl Display for CargoBuildOptions
UnstableFmt(flags) ==
  IF flags = <<>> THEN <<>>
  ELSE <<" ", "-", "Z">> \o Head(flags) \o UnstableFmt(Tail(flags))

\* a Display that writes the target whatever it is
TripleArgAlways(triple) == <<" ", "-", "-", "t", "a", "r", "g", "e", "t", "=">> \o triple

\* the triple of impl Display for CargoBuildOptions
TripleArg(triple) ==
  IF triple # DefaultTarget THEN <<" ", "-", "-", "t", "a", "r", "g", "e", "t", "=">> \o triple ELSE <<>>

\* impl Display for CargoBuildOptions
CargoFmt(c) ==
  Concat(<<
    WriteIf(c.release, <<" ", "-", "O">>),
    WriteIf(c.no_default_features, <<" ", "-", "-", "n", "o", "-", "d", "e", "f", "a", "u", "l", "t", "-", "f", "e", "a", "t", "u", "r", "e", "s">>),
    WriteIf(c.all_features, <<" ", "-", "-", "a", "l", "l", "-", "f", "e", "a", "t", "u", "r", "e", "s">>),
    WriteSome(c.features, <<" ", "-", "-", "f", "e", "a", "t", "u", "r", "e", "s", "=">>),
    SanitizerArg(c.sanitizer),
    WriteIf(c.build_std, <<" ", "-", "-", "b", "u", "i", "l", "d", "-", "s", "t", "d">>),
    WriteIf(c.careful_mode, <<" ", "-", "-", "c", "a", "r", "e", "f", "u", "l">>),
    WriteIf(c.coverage, <<" ", "-", "-", "c", "o", "v", "e", "r", "a", "g", "e">>),
    WriteIf(c.debug_assertions, <<" ", "-", "-", "d", "e", "b", "u", "g", "-", "a", "s", "s", "e", "r", "t", "i", "o", "n", "s">>),
    WriteIf(c.strip_dead_code, <<" ", "-", "-", "s", "t", "r", "i", "p", "-", "d", "e", "a", "d", "-", "c", "o", "d", "e">>),
    WriteIf(c.no_cfg_fuzzing, <<" ", "-", "-", "n", "o", "-", "c", "f", "g", "-", "f", "u", "z", "z", "i", "n", "g">>),
    WriteIf(c.no_trace_compares, <<" ", "-", "-", "n", "o", "-", "t", "r", "a", "c", "e", "-", "c", "o", "m", "p", "a", "r", "e", "s">>),
    TripleArg(c.triple),
    UnstableFmt(c.unstable_flags) >>)

\* impl Display for BuildOptions
BuildFmt(o) ==
  Concat(<<
    MoveFmt(o.move_options),
    CargoFmt(o.cargo_options),
    WriteIf(o.dev, <<" ", "-", "D">>),
    WriteIf(o.verbose, <<" ", "-", "v">>),
    WriteSome(o.target_dir, <<" ", "-", "-", "t", "a", "r", "g", "e", "t", "-", "d", "i", "r", "=">>) >>)

(* ---- the parser clap derives from the #[arg] declarations ---- *)
\* str::split(' '): the pieces between single spaces, empty pieces included
RECURSIVE SplitFrom(_, _, _)
SplitFrom(s, i, cur) ==
  IF i > Len(s) THEN <<cur>>
  ELSE IF s[i] = " " THEN <<cur>> \o SplitFrom(s, i + 1, <<>>)
  ELSE SplitFrom(s, i + 1, Append(cur, s[i]))

\* a split that drops the empty pieces, as split_whitespace does
SplitSkipEmpty(s) == SelectSeq(SplitFrom(s, 1, <<>>), LAMBDA t : t # <<>>)

Split(s) == SplitFrom(s, 1, <<>>)

\* #[derive(ValueEnum)] for Sanitizer: the variant a name selects
SanitizerFromStr(raw) ==
  CASE raw = <<"a", "d", "d", "r", "e", "s", "s">> -> Some("Address")
    [] raw = <<"l", "e", "a", "k">> -> Some("Leak")
    [] raw = <<"m", "e", "m", "o", "r", "y">> -> Some("Memory")
    [] raw = <<"t", "h", "r", "e", "a", "d">> -> Some("Thread")
    [] raw = <<"n", "o", "n", "e">> -> Some("None")
    [] OTHER -> None

IsDigit(c) == \E i \in 1..10 : Digits[i] = c

DigitVal(c) == (CHOOSE i \in 1..10 : Digits[i] = c) - 1

RECURSIVE DigitsVal(_, _)
DigitsVal(s, acc) ==
  IF s = <<>> THEN acc ELSE DigitsVal(Tail(s), acc * 10 + DigitVal(Head(s)))

\* a value parser that takes the digits and forgets the sign
U32FromStrUnsigned(raw) ==
  LET signed == raw # <<>> /\ Head(raw) \in {"+", "-"}
      ds == IF signed THEN Tail(raw) ELSE raw
  IN IF ds = <<>> \/ \E i \in 1..Len(ds) : ~IsDigit(ds[i]) THEN None
     ELSE Some(DigitsVal(ds, 0))

\* the value parser of Option<u32>: an optional sign and decimal digits, then
\* the range check of u32 (the digit strings here are far below u32::MAX)
U32FromStr(raw) ==
  LET signed == raw # <<>> /\ Head(raw) \in {"+", "-"}
      ds == IF signed THEN Tail(raw) ELSE raw
  IN IF ds = <<>> \/ \E i \in 1..Len(ds) : ~IsDigit(ds[i]) THEN None
     ELSE IF signed /\ Head(raw) = "-" /\ DigitsVal(ds, 0) > 0 THEN None
     ELSE Some(DigitsVal(ds, 0))

\* the value parser each kind of field gets
ParseValue(kind, raw) ==
  CASE kind = "Sanitizer" -> SanitizerFromStr(raw)
    [] kind = "u32" -> U32FromStr(raw)
    [] OTHER -> Some(raw)

\* one declared argument
Arg(id, short, long, action, kind, conflicts) ==
  [id |-> id, short |-> short, long |-> long, action |-> action, kind |-> kind,
   conflicts |-> conflicts]

\* the #[arg] declarations of BuildOptions and of its two flattened structs,
\* and the help flag clap adds to a Parser
DeclaredArgs == {
  Arg("dev", "D", <<"d", "e", "v">>, "SetTrue", "none", {"release"}),
  Arg("verbose", "v", <<"v", "e", "r", "b", "o", "s", "e">>, "SetTrue", "none", {}),
  Arg("target_dir", "", <<"t", "a", "r", "g", "e", "t", "-", "d", "i", "r">>, "Set", "String", {}),
  Arg("bytecode_version", "", <<"b", "y", "t", "e", "c", "o", "d", "e", "-", "v", "e", "r", "s", "i", "o", "n">>, "Set", "u32", {}),
  Arg("fetch_deps_only", "", <<"f", "e", "t", "c", "h", "-", "d", "e", "p", "s", "-", "o", "n", "l", "y">>, "SetTrue", "none", {}),
  Arg("force", "", <<"f", "o", "r", "c", "e">>, "SetTrue", "none", {}),
  Arg("skip_fetch_latest_git_deps", "", <<"s", "k", "i", "p", "-", "f", "e", "t", "c", "h", "-", "l", "a", "t", "e", "s", "t", "-", "g", "i", "t", "-", "d", "e", "p", "s">>, "SetTrue", "none", {}),
  Arg("release", "O", <<"r", "e", "l", "e", "a", "s", "e">>, "SetTrue", "none", {"dev"}),
  Arg("debug_assertions", "a", <<"d", "e", "b", "u", "g", "-", "a", "s", "s", "e", "r", "t", "i", "o", "n", "s">>, "SetTrue", "none", {}),
  Arg("no_default_features", "", <<"n", "o", "-", "d", "e", "f", "a", "u", "l", "t", "-", "f", "e", "a", "t", "u", "r", "e", "s">>, "SetTrue", "none", {}),
  Arg("all_features", "", <<"a", "l", "l", "-", "f", "e", "a", "t", "u", "r", "e", "s">>, "SetTrue", "none", {"no_default_features", "features"}),
  Arg("features", "", <<"f", "e", "a", "t", "u", "r", "e", "s">>, "Set", "String", {}),
  Arg("sanitizer", "s", <<"s", "a", "n", "i", "t", "i", "z", "e", "r">>, "Set", "Sanitizer", {}),
  Arg("build_std", "", <<"b", "u", "i", "l", "d", "-", "s", "t", "d">>, "SetTrue", "none", {}),
  Arg("careful_mode", "c", <<"c", "a", "r", "e", "f", "u", "l">>, "SetTrue", "none", {}),
  Arg("triple", "", <<"t", "a", "r", "g", "e", "t">>, "Set", "String", {}),
  Arg("unstable_flags", "Z", <<>>, "Append", "String", {}),
  Arg("strip_dead_code", "", <<"s", "t", "r", "i", "p", "-", "d", "e", "a", "d", "-", "c", "o", "d", "e">>, "SetTrue", "none", {}),
  Arg("no_cfg_fuzzing", "", <<"n", "o", "-", "c", "f", "g", "-", "f", "u", "z", "z", "i", "n", "g">>, "SetTrue", "none", {}),
  Arg("no_trace_compares", "", <<"n", "o", "-", "t", "r", "a", "c", "e", "-", "c", "o", "m", "p", "a", "r", "e", "s">>, "SetTrue", "none", {}),
  Arg("help", "h", <<"h", "e", "l", "p">>, "Help", "none", {}) }

\* the declarations with coverage declared #[arg(long)], not skipped
ArgsWithCoverage ==
  DeclaredArgs \cup {Arg("coverage", "", <<"c", "o", "v", "e", "r", "a", "g", "e">>, "SetTrue", "none", {})}

\* the arguments the parser knows: coverage is #[arg(skip)] and declares none
Args == DeclaredArgs

\* the matches gathered so far: the arguments seen, their values, the option
\* still waiting for its value, and the error that ended the parse
EmptyMatcher ==
  [seen |-> {},
   vals |-> [target_dir |-> None, bytecode_version |-> None, features |-> None,
             sanitizer |-> None, triple |-> None, unstable_flags |-> <<>>],
   pending |-> "", pvals |-> <<>>, state |-> "Done", trailing |-> FALSE,
   err |-> ""]

Fail(m, kind) == [m EXCEPT !.err = kind]

\* what an argument's action does with the values it was given
ReactCore(m, arg, raws) ==
  IF arg.action = "Help" THEN Fail(m, "DisplayHelp")
  ELSE IF arg.action = "SetTrue" THEN
    IF arg.id \in m.seen THEN Fail(m, "Conflict")
    ELSE [m EXCEPT !.seen = @ \cup {arg.id}, !.state = "Done"]
  ELSE IF raws = <<>> THEN Fail(m, "MalformedValue")
  ELSE IF arg.action = "Set" /\ arg.id \in m.seen THEN Fail(m, "Conflict")
  ELSE LET v == ParseValue(arg.kind, raws[1]) IN
    IF v = None THEN Fail(m, "MalformedValue")
    ELSE IF arg.action = "Append"
      THEN [m EXCEPT !.seen = @ \cup {arg.id}, !.state = "Done",
                     !.vals[arg.id] = Append(@, v[1])]
      ELSE [m EXCEPT !.seen = @ \cup {arg.id}, !.state = "Done",
                     !.vals[arg.id] = v]

\* the option waiting for a value takes what it was given, or fails without
ResolvePending(m) ==
  IF m.pending = "" THEN m
  ELSE ReactCore([m EXCEPT !.pending = "", !.pvals = <<>>],
                 CHOOSE a \in Args : a.id = m.pending, m.pvals)

React(m, arg, raws) ==
  LET m1 == ResolvePending(m) IN
  IF m1.err # "" THEN m1 ELSE ReactCore(m1, arg, raws)

\* an option with its attached value, or left waiting for the next token
ParseOptValue(m, arg, attached) ==
  IF attached # None THEN React(m, arg, attached)
  ELSE LET m1 == ResolvePending(m) IN
    IF m1.err # "" THEN m1
    ELSE [m1 EXCEPT !.pending = arg.id, !.pvals = <<>>, !.state = "Opt"]

IsEscape(tok) == tok = <<"-", "-">>

IsLong(tok) == Len(tok) > 2 /\ tok[1] = "-" /\ tok[2] = "-"

IsShort(tok) == Len(tok) > 1 /\ tok[1] = "-" /\ tok[2] # "-"

\* the first position of c in s, or 0
IndexOf(s, c) ==
  IF \E i \in 1..Len(s) : s[i] = c
  THEN CHOOSE i \in 1..Len(s) : s[i] = c /\ \A j \in 1..(i - 1) : s[j] # c
  ELSE 0

\* a token --name or --name=value
ParseLongArg(m, tok) ==
  LET rest == SubSeq(tok, 3, Len(tok))
      eq == IndexOf(rest, "=")
      name == IF eq = 0 THEN rest ELSE SubSeq(rest, 1, eq - 1)
      attached == IF eq = 0 THEN None ELSE Some(SubSeq(rest, eq + 1, Len(rest)))
      found == {a \in Args : a.long = name /\ name # <<>>}
  IN IF found = {} THEN Fail(m, "UnrecognizedFlag")
     ELSE LET arg == CHOOSE a \in found : TRUE IN
       IF arg.action \in {"Set", "Append"} THEN ParseOptValue(m, arg, attached)
       ELSE IF attached # None THEN Fail(m, "TooManyValues")
       ELSE React(m, arg, <<>>)

RECURSIVE ParseShortArg(_, _, _)
\* a token -x, -xyz (several flags) or -xvalue, -x=value, from character i on
ParseShortArg(m, tok, i) ==
  IF i > Len(tok) THEN m
  ELSE LET found == {a \in Args : a.short = tok[i]} IN
    IF found = {} THEN Fail(m, "UnrecognizedFlag")
    ELSE LET arg == CHOOSE a \in found : TRUE IN
      IF arg.action \in {"Set", "Append"} THEN
        LET rest == SubSeq(tok, i + 1, Len(tok))
            attached == IF rest = <<>> THEN None
                        ELSE IF Head(rest) = "=" THEN Some(Tail(rest))
                        ELSE Some(rest)
        IN ParseOptValue(m, arg, attached)
      ELSE LET m1 == React(m, arg, <<>>) IN
        IF m1.err # "" THEN m1 ELSE ParseShortArg(m1, tok, i + 1)

\* one token of the command line
ParseToken(m, tok) ==
  IF m.trailing THEN Fail(m, "UnrecognizedFlag")
  ELSE IF IsEscape(tok) THEN [m EXCEPT !.trailing = TRUE]
  ELSE IF IsLong(tok) THEN ParseLongArg(m, tok)
  ELSE IF IsShort(tok) THEN ParseShortArg(m, tok, 2)
  ELSE IF m.state = "Opt"
    THEN [m EXCEPT !.pvals = Append(@, tok), !.state = "Done"]
  ELSE Fail(m, "UnrecognizedFlag")

RECURSIVE ParseTokens(_, _)
\* the tokens from left to right, up to the first error
ParseTokens(m, toks) ==
  IF m.err # "" \/ toks = <<>> THEN m
  ELSE ParseTokens(ParseToken(m, Head(toks)), Tail(toks))

\* a validation that knows the conflict of dev and release only
ValidateDevOnly(m) ==
  IF {"dev", "release"} \subseteq m.seen THEN Fail(m, "Conflict") ELSE m

\* conflicts_with / conflicts_with_all, checked once every token is parsed
Validate(m) ==
  IF \E a \in Args : a.id \in m.seen /\ a.conflicts \cap m.seen # {}
  THEN Fail(m, "Conflict") ELSE m

\* the struct the matches give: defaults where nothing was given, and
\* coverage from its skip expression
FromArgMatches(m) ==
  [dev |-> "dev" \in m.seen, verbose |-> "verbose" \in m.seen,
   target_dir |-> m.vals.target_dir,
   move_options |->
     [bytecode_version |-> m.vals.bytecode_version,
      fetch_deps_only |-> "fetch_deps_only" \in m.seen,
      force |-> "force" \in m.seen,
      skip_fetch_latest_git_deps |-> "skip_fetch_latest_git_deps" \in m.seen],
   cargo_options |->
     [release |-> "release" \in m.seen,
      debug_assertions |-> "debug_assertions" \in m.seen,
      no_default_features |-> "no_default_features" \in m.seen,
      all_features |-> "all_features" \in m.seen,
      features |-> m.vals.features,
      sanitizer |-> IF m.vals.sanitizer = None
                    THEN SanitizerFromStr(SanitizerFmt("Address"))[1]
                    ELSE m.vals.sanitizer[1],
      build_std |-> "build_std" \in m.seen,
      careful_mode |-> "careful_mode" \in m.seen,
      triple |-> IF m.vals.triple = None THEN DefaultTarget
                 ELSE m.vals.triple[1],
      unstable_flags |-> m.vals.unstable_flags,
      coverage |-> FALSE,
      strip_dead_code |-> "strip_dead_code" \in m.seen,
      no_cfg_fuzzing |-> "no_cfg_fuzzing" \in m.seen,
      no_trace_compares |-> "no_trace_compares" \in m.seen]]

\* the outcome of a parse: a value, or the kind of error that ended it
Parsed(v) == [ok |-> TRUE, value |-> Some(v), err |-> ""]
Failed(kind) == [ok |-> FALSE, value |-> None, err |-> kind]
NoResult == [ok |-> FALSE, value |-> None, err |-> "not parsed"]

\* BuildOptions::parse_from: the first item is the program's name
ParseFromArgs(items) ==
  LET toks == IF items = <<>> THEN <<>> ELSE Tail(items)
      m1 == ParseTokens(EmptyMatcher, toks)
      m2 == IF m1.err # "" THEN m1 ELSE ResolvePending(m1)
      m3 == IF m2.err # "" THEN m2 ELSE Validate(m2)
  IN IF m3.err # "" THEN Failed(m3.err) ELSE Parsed(FromArgMatches(m3))

(* ---- the values a program constructs ---- *)
\* the bytecode versions constructed: the smallest and the largest
Versions == {0, MaxVersion}

\* struct update syntax: BuildOptions { field: value, ..c }, and a push on
\* unstable_flags
Overrides(c) ==
  {[c EXCEPT !.dev = TRUE], [c EXCEPT !.verbose = TRUE]}
  \cup {[c EXCEPT !.target_dir = Some(s)] : s \in Strings}
  \cup {[c EXCEPT !.move_options.bytecode_version = Some(n)] : n \in Versions}
  \cup {[c EXCEPT !.move_options.fetch_deps_only = TRUE],
        [c EXCEPT !.move_options.force = TRUE],
        [c EXCEPT !.move_options.skip_fetch_latest_git_deps = TRUE],
        [c EXCEPT !.cargo_options.release = TRUE],
        [c EXCEPT !.cargo_options.debug_assertions = TRUE],
        [c EXCEPT !.cargo_options.no_default_features = TRUE],
        [c EXCEPT !.cargo_options.all_features = TRUE],
        [c EXCEPT !.cargo_options.build_std = TRUE],
        [c EXCEPT !.cargo_options.careful_mode = TRUE],
        [c EXCEPT !.cargo_options.coverage = TRUE],
        [c EXCEPT !.cargo_options.strip_dead_code = TRUE],
        [c EXCEPT !.cargo_options.no_cfg_fuzzing = TRUE],
        [c EXCEPT !.cargo_options.no_trace_compares = TRUE]}
  \cup {[c EXCEPT !.cargo_options.features = Some(s)] : s \in Strings}
  \cup {[c EXCEPT !.cargo_options.sanitizer = s] : s \in Sanitizer}
  \cup {[c EXCEPT !.cargo_options.triple = s] : s \in Strings}
  \cup {[c EXCEPT !.cargo_options.unstable_flags = Append(@, s)] : s \in Strings}

Count(b) == IF b THEN 1 ELSE 0

\* the number of fields of c that differ from the default value, an unstable
\* flag counting as one
Diff(c) ==
  LET m == c.move_options
      g == c.cargo_options
  IN Count(c.dev) + Count(c.verbose) + Count(c.target_dir # None)
     + Count(m.bytecode_version # None) + Count(m.fetch_deps_only)
     + Count(m.force) + Count(m.skip_fetch_latest_git_deps)
     + Count(g.release) + Count(g.debug_assertions)
     + Count(g.no_default_features) + Count(g.all_features)
     + Count(g.features # None) + Count(g.sanitizer # "Address")
     + Count(g.build_std) + Count(g.careful_mode)
     + Count(g.triple # DefaultTarget) + Len(g.unstable_flags)
     + Count(g.coverage) + Count(g.strip_dead_code) + Count(g.no_cfg_fuzzing)
     + Count(g.no_trace_compares)

(* ---- the tokens a command line is made of ---- *)
\* -D/--dev and -O/--release
DevTokens == {<<"-", "D">>, <<"-", "-", "d", "e", "v">>}
ReleaseTokens == {<<"-", "O">>, <<"-", "-", "r", "e", "l", "e", "a", "s", "e">>}
AllFeaturesTokens == {<<"-", "-", "a", "l", "l", "-", "f", "e", "a", "t", "u", "r", "e", "s">>}
NoDefaultFeaturesTokens == {<<"-", "-", "n", "o", "-", "d", "e", "f", "a", "u", "l", "t", "-", "f", "e", "a", "t", "u", "r", "e", "s">>}
FeaturesTokens == {<<"-", "-", "f", "e", "a", "t", "u", "r", "e", "s", "=", "a">>}
\* declared flags, with a value of the right type where they take one
GoodTokens ==
  DevTokens \cup ReleaseTokens \cup AllFeaturesTokens
  \cup NoDefaultFeaturesTokens \cup FeaturesTokens
  \cup {<<"-", "Z", "a">>, <<"-", "-", "b", "y", "t", "e", "c", "o", "d", "e", "-", "v", "e", "r", "s", "i", "o", "n", "=", "7">>}
\* the value-bearing flags with no value
BareTokens == {<<"-", "-", "b", "y", "t", "e", "c", "o", "d", "e", "-", "v", "e", "r", "s", "i", "o", "n">>, <<"-", "-", "f", "e", "a", "t", "u", "r", "e", "s">>, <<"-", "-", "t", "a", "r", "g", "e", "t", "-", "d", "i", "r">>, <<"-", "-", "t", "a", "r", "g", "e", "t">>, <<"-", "-", "s", "a", "n", "i", "t", "i", "z", "e", "r">>, <<"-", "Z">>}
\* a value of the wrong type: not a number, a negative number, no sanitizer
BadValueTokens == {<<"-", "-", "b", "y", "t", "e", "c", "o", "d", "e", "-", "v", "e", "r", "s", "i", "o", "n", "=", "a">>, <<"-", "-", "b", "y", "t", "e", "c", "o", "d", "e", "-", "v", "e", "r", "s", "i", "o", "n", "=", "-", "1">>, <<"-", "-", "s", "a", "n", "i", "t", "i", "z", "e", "r", "=", "a">>}
\* tokens that are no declared flag
UnknownTokens == {<<"-", "-", "c", "o", "v", "e", "r", "a", "g", "e">>, <<"a">>, <<"-", "x">>}
\* the flag clap adds to every Parser
HelpTokens == {<<"-", "-", "h", "e", "l", "p">>}
\* the token that ends the flags
EscapeToken == <<"-", "-">>

Tokens ==
  GoodTokens \cup BareTokens \cup BadValueTokens \cup UnknownTokens
  \cup HelpTokens \cup {EscapeToken}

(* ---- the state machine ---- *)
\* a value under construction, as the test and the coverage command build it
Init ==
  /\ pc = "construct"
  /\ case = DefaultOpts
  /\ str = <<>>
  /\ argv = <<>>
  /\ result = NoResult
  /\ shown = <<>>

\* a command line under construction: the program's name, no flag yet
InitArgs ==
  /\ pc = "args"
  /\ case = DefaultOpts
  /\ str = <<>>
  /\ argv = << <<>> >>
  /\ result = NoResult
  /\ shown = <<>>

Override ==
  /\ pc = "construct"
  /\ Diff(case) < MaxOverrides
  /\ \E c \in Overrides(case) :
       /\ c # case
       /\ case' = c
  /\ UNCHANGED <<pc, str, argv, result, shown>>

\* case.to_string()
ToString ==
  /\ pc = "construct"
  /\ str' = BuildFmt(case)
  /\ pc' = "formatted"
  /\ UNCHANGED <<case, argv, result, shown>>

\* .split(' ')
SplitArgs ==
  /\ pc = "formatted"
  /\ argv' = Split(str)
  /\ pc' = "split"
  /\ UNCHANGED <<case, str, result, shown>>

\* BuildOptions::parse_from(..)
ParseFrom ==
  /\ pc \in {"split", "args"}
  /\ result' = ParseFromArgs(argv)
  /\ pc' = "done"
  /\ UNCHANGED <<case, str, argv, shown>>

\* format!("{}", sanitizer)
FmtSanitizer ==
  /\ pc = "construct"
  /\ shown' = SanitizerFmt(case.cargo_options.sanitizer)
  /\ pc' = "shown"
  /\ UNCHANGED <<case, str, argv, result>>

\* the command line gets one more token
PushArg ==
  /\ pc = "args"
  /\ Len(argv) < MaxArgs + 1
  /\ \E t \in Tokens : argv' = Append(argv, t)
  /\ UNCHANGED <<pc, case, str, result, shown>>

Next == Override \/ ToString \/ SplitArgs \/ ParseFrom \/ FmtSanitizer

Spec == Init /\ [][Next]_vars

NextArgs == PushArg \/ ParseFrom

SpecArgs == InitArgs /\ [][NextArgs]_vars


(* ---- properties ---- *)
Range(s) == {s[i] : i \in 1..Len(s)}

HasPrefix(t, p) == Len(t) >= Len(p) /\ SubSeq(t, 1, Len(p)) = p

NoSpace(s) == \A i \in 1..Len(s) : s[i] # " "

\* the two mutual exclusions: dev/release, all_features/{no_default_features, features}
Valid(o) ==
  /\ ~(o.dev /\ o.cargo_options.release)
  /\ ~(o.cargo_options.all_features
        /\ (o.cargo_options.no_default_features \/ o.cargo_options.features # None))

\* no string value of o contains a space
NoSpaceCase(o) ==
  /\ o.target_dir = None \/ NoSpace(o.target_dir[1])
  /\ o.cargo_options.features = None \/ NoSpace(o.cargo_options.features[1])
  /\ NoSpace(o.cargo_options.triple)
  /\ \A i \in 1..Len(o.cargo_options.unstable_flags) :
       NoSpace(o.cargo_options.unstable_flags[i])

\* every unstable flag of o is non-empty
NonEmptyFlags(o) ==
  \A i \in 1..Len(o.cargo_options.unstable_flags) :
    o.cargo_options.unstable_flags[i] # <<>>

\* no unstable flag of o begins with the character clap strips after -Z
NoLeadingEq(o) ==
  \A i \in 1..Len(o.cargo_options.unstable_flags) :
    LET u == o.cargo_options.unstable_flags[i] IN u = <<>> \/ u[1] # "="

\* the tokens after the program name
Flags(items) == IF items = <<>> THEN {} ELSE Range(Tail(items))

ZPrefix == <<"-", "Z">>
CoverageToken == <<"-", "-", "c", "o", "v", "e", "r", "a", "g", "e">>
SanitizerPrefix == <<"-", "-", "s", "a", "n", "i", "t", "i", "z", "e", "r", "=">>

\* the flag token of every boolean field of o, with the field's value
BoolTokens(o) ==
  {<<<<"-", "D">>, o.dev>>, <<<<"-", "v">>, o.verbose>>,
   <<<<"-", "-", "f", "e", "t", "c", "h", "-", "d", "e", "p", "s", "-", "o", "n", "l", "y">>, o.move_options.fetch_deps_only>>,
   <<<<"-", "-", "f", "o", "r", "c", "e">>, o.move_options.force>>,
   <<<<"-", "-", "s", "k", "i", "p", "-", "f", "e", "t", "c", "h", "-", "l", "a", "t", "e", "s", "t", "-", "g", "i", "t", "-", "d", "e", "p", "s">>, o.move_options.skip_fetch_latest_git_deps>>,
   <<<<"-", "O">>, o.cargo_options.release>>,
   <<<<"-", "-", "d", "e", "b", "u", "g", "-", "a", "s", "s", "e", "r", "t", "i", "o", "n", "s">>, o.cargo_options.debug_assertions>>,
   <<<<"-", "-", "n", "o", "-", "d", "e", "f", "a", "u", "l", "t", "-", "f", "e", "a", "t", "u", "r", "e", "s">>, o.cargo_options.no_default_features>>,
   <<<<"-", "-", "a", "l", "l", "-", "f", "e", "a", "t", "u", "r", "e", "s">>, o.cargo_options.all_features>>,
   <<<<"-", "-", "b", "u", "i", "l", "d", "-", "s", "t", "d">>, o.cargo_options.build_std>>,
   <<<<"-", "-", "c", "a", "r", "e", "f", "u", "l">>, o.cargo_options.careful_mode>>,
   <<CoverageToken, o.cargo_options.coverage>>,
   <<<<"-", "-", "s", "t", "r", "i", "p", "-", "d", "e", "a", "d", "-", "c", "o", "d", "e">>, o.cargo_options.strip_dead_code>>,
   <<<<"-", "-", "n", "o", "-", "c", "f", "g", "-", "f", "u", "z", "z", "i", "n", "g">>, o.cargo_options.no_cfg_fuzzing>>,
   <<<<"-", "-", "n", "o", "-", "t", "r", "a", "c", "e", "-", "c", "o", "m", "p", "a", "r", "e", "s">>, o.cargo_options.no_trace_compares>>}

\* the --flag= prefix of every optional value of o, with the text of the value
ValueTokens(o) ==
  {<<<<"-", "-", "t", "a", "r", "g", "e", "t", "-", "d", "i", "r", "=">>, IF o.target_dir = None THEN None ELSE o.target_dir>>,
   <<<<"-", "-", "f", "e", "a", "t", "u", "r", "e", "s", "=">>, o.cargo_options.features>>,
   <<<<"-", "-", "b", "y", "t", "e", "c", "o", "d", "e", "-", "v", "e", "r", "s", "i", "o", "n", "=">>, IF o.move_options.bytecode_version = None THEN None
         ELSE Some(U32Fmt(o.move_options.bytecode_version[1]))>>,
   <<<<"-", "-", "t", "a", "r", "g", "e", "t", "=">>, IF o.cargo_options.triple = DefaultTarget THEN None
         ELSE Some(o.cargo_options.triple)>>}

\* the value has nothing the flag string cannot carry: no coverage, no space
\* in a string, no unstable flag that is empty or begins with =
Tokenizable(o) ==
  /\ ~o.cargo_options.coverage
  /\ NoSpaceCase(o)
  /\ NonEmptyFlags(o)
  /\ NoLeadingEq(o)

\* C1 as stated: every valid value, whatever its fields hold, is what parsing
\* its flag string returns
C1_RoundTripAll ==
  pc = "done" /\ Valid(case) => result = Parsed(case)

\* C1 amended: a valid value with coverage = false, no space in its strings
\* and no unstable flag that is empty or begins with = is what parsing its
\* flag string returns
C1_RoundTrip ==
  pc = "done" /\ Valid(case) /\ Tokenizable(case) => result = Parsed(case)

C1_Witness ==
  /\ pc = "done"
  /\ Valid(case) /\ Tokenizable(case)
  /\ case.move_options.skip_fetch_latest_git_deps
  /\ case.cargo_options.features # None
  /\ result = Parsed(case)

\* the tokens with a prefix, in the order of the command line
WithPrefix(items, p) == SelectSeq(Tail(items), LAMBDA t : HasPrefix(t, p))

\* both mutual exclusions as seen on a command line
HasAny(items, S) == Flags(items) \cap S # {}

Conflicting(items) ==
  \/ HasAny(items, DevTokens) /\ HasAny(items, ReleaseTokens)
  \/ /\ HasAny(items, AllFeaturesTokens)
     /\ HasAny(items, NoDefaultFeaturesTokens) \/ HasAny(items, FeaturesTokens)

\* C2: a command line with both flags of a mutual exclusion returns no value,
\* in any order and whatever else it holds; the error is the conflict error
\* when its other tokens are well-formed declared flags
C2_MutualExclusion ==
  pc = "done" /\ Conflicting(argv) =>
    /\ ~result.ok
    /\ result.value = None
    /\ Flags(argv) \subseteq GoodTokens => result = Failed("Conflict")

C2_Witness ==
  /\ pc = "done"
  /\ Len(argv) = 4
  /\ argv[2] \in ReleaseTokens
  /\ argv[3] \in GoodTokens \ (DevTokens \cup ReleaseTokens)
  /\ argv[4] \in DevTokens
  /\ result = Failed("Conflict")

\* the sanitizer tokens of a command line
SanitizerTokens(items) == {t \in Flags(items) : HasPrefix(t, SanitizerPrefix)}

ExpectedSanitizerTokens(s) ==
  CASE s = "Address" -> {}
    [] s = "None" -> {SanitizerPrefix \o <<"n", "o", "n", "e">>}
    [] s = "Leak" -> {SanitizerPrefix \o <<"l", "e", "a", "k">>}
    [] s = "Memory" -> {SanitizerPrefix \o <<"m", "e", "m", "o", "r", "y">>}
    [] s = "Thread" -> {SanitizerPrefix \o <<"t", "h", "r", "e", "a", "d">>}

\* C3: no sanitizer token for Address, --sanitizer=none for None, the
\* lowercase name for Leak, Memory and Thread; a parse that succeeds returns
\* the variant that was serialized (the strings of the value having no
\* space), and it succeeds when the sanitizer is the only field set
C3_SanitizerAsymmetry ==
  pc = "done" =>
    /\ NoSpaceCase(case) =>
         /\ SanitizerTokens(argv)
              = ExpectedSanitizerTokens(case.cargo_options.sanitizer)
         /\ result.ok =>
              result.value[1].cargo_options.sanitizer
                = case.cargo_options.sanitizer
    /\ [case EXCEPT !.cargo_options.sanitizer = "Address"] = DefaultOpts =>
         result = Parsed(case)

C3_Witness ==
  /\ pc = "done"
  /\ case.cargo_options.sanitizer = "None"
  /\ Diff(case) = 1
  /\ result.ok
  /\ result.value[1].cargo_options.sanitizer = "None"

CountZ(s) ==
  Cardinality({i \in 1..(Len(s) - 2) :
                 s[i] = " " /\ s[i + 1] = "-" /\ s[i + 2] = "Z"})

ExpectedZTokens(flags) == [i \in 1..Len(flags) |-> ZPrefix \o flags[i]]

\* everything but the unstable flags is a value the flag string carries
OthersTokenizable(o) ==
  /\ Valid(o)
  /\ Tokenizable([o EXCEPT !.cargo_options.unstable_flags = <<>>])

\* C5 as stated: one " -Z<value>" is written per entry, in order, and
\* whatever the entries are, parsing recovers the sequence
C5_AnyFlags ==
  pc = "done" =>
    /\ CountZ(str) = Len(case.cargo_options.unstable_flags)
    /\ NoSpaceCase(case) =>
         WithPrefix(argv, ZPrefix)
           = ExpectedZTokens(case.cargo_options.unstable_flags)
    /\ OthersTokenizable(case) =>
         /\ result.ok
         /\ result.value[1].cargo_options.unstable_flags
              = case.cargo_options.unstable_flags

\* C5 amended: one " -Z<value>" is written per entry; the -Z tokens are the
\* entries in order, duplicates kept, when no entry has a space; parsing
\* recovers the sequence when, besides, no entry is empty or begins with =
C5_UnstableFlags ==
  pc = "done" =>
    /\ CountZ(str) = Len(case.cargo_options.unstable_flags)
    /\ NoSpaceCase(case) =>
         WithPrefix(argv, ZPrefix)
           = ExpectedZTokens(case.cargo_options.unstable_flags)
    /\ Valid(case) /\ Tokenizable(case) =>
         /\ result.ok
         /\ result.value[1].cargo_options.unstable_flags
              = case.cargo_options.unstable_flags

C5_Witness ==
  /\ pc = "done"
  /\ Len(case.cargo_options.unstable_flags) = 2
  /\ case.cargo_options.unstable_flags[1] # case.cargo_options.unstable_flags[2]
  /\ Tokenizable(case)
  /\ result = Parsed(case)

\* C6 as stated: coverage = true is written as --coverage and parsed back
C6_CoverageParsedBack ==
  pc = "done" /\ case.cargo_options.coverage =>
    /\ CoverageToken \in Flags(argv)
    /\ result.ok
    /\ result.value[1].cargo_options.coverage

\* C6 amended: coverage = true is written as --coverage, and parsing that
\* flag string returns no value: it fails, on --coverage as a flag that is
\* not recognized when the strings of the value have no space
C6_CoverageWritten ==
  pc = "done" /\ case.cargo_options.coverage =>
    /\ CoverageToken \in Flags(argv)
    /\ ~result.ok
    /\ result.value = None
    /\ NoSpaceCase(case) => result = Failed("UnrecognizedFlag")

C6_Witness ==
  /\ pc = "done"
  /\ case.cargo_options.coverage
  /\ Diff(case) = 1
  /\ argv = << <<>>, CoverageToken >>
  /\ result = Failed("UnrecognizedFlag")

\* C7 as stated: the empty string for Address, the lowercase name for the rest
C7_EmptyForAddress ==
  pc = "shown" =>
    shown = CASE case.cargo_options.sanitizer = "Address" -> <<>>
              [] case.cargo_options.sanitizer = "Leak" -> <<"l", "e", "a", "k">>
              [] case.cargo_options.sanitizer = "Memory" -> <<"m", "e", "m", "o", "r", "y">>
              [] case.cargo_options.sanitizer = "Thread" -> <<"t", "h", "r", "e", "a", "d">>
              [] case.cargo_options.sanitizer = "None" -> <<"n", "o", "n", "e">>

\* C7 amended: the empty string for None, the lowercase name for the rest,
\* "address" for Address
C7_EmptyForNone ==
  pc = "shown" =>
    shown = CASE case.cargo_options.sanitizer = "Address" -> <<"a", "d", "d", "r", "e", "s", "s">>
              [] case.cargo_options.sanitizer = "Leak" -> <<"l", "e", "a", "k">>
              [] case.cargo_options.sanitizer = "Memory" -> <<"m", "e", "m", "o", "r", "y">>
              [] case.cargo_options.sanitizer = "Thread" -> <<"t", "h", "r", "e", "a", "d">>
              [] case.cargo_options.sanitizer = "None" -> <<>>

C7_Witness ==
  /\ pc = "shown"
  /\ case.cargo_options.sanitizer = "None"
  /\ shown = <<>>

\* the flag a token names: what stands before its value
NameOf(t) ==
  IF IsLong(t) /\ IndexOf(t, "=") # 0 THEN SubSeq(t, 1, IndexOf(t, "=") - 1)
  ELSE IF IsShort(t) THEN SubSeq(t, 1, 2)
  ELSE t

SameFlag(t, u) ==
  \/ NameOf(t) = NameOf(u)
  \/ \E G \in {DevTokens, ReleaseTokens} : t \in G /\ u \in G

\* the places of a command line that are no well-formed declared flag
Defects(items) == {i \in 2..Len(items) : items[i] \notin GoodTokens}

\* one defect, and no flag given twice
SingleDefect(items) ==
  /\ Cardinality(Defects(items)) = 1
  /\ \A i, j \in 2..Len(items) : i < j => ~SameFlag(items[i], items[j])

\* C8: a command line whose one defect is a value-bearing flag without a
\* value or with a value of the wrong type fails on a malformed value, one
\* whose one defect is a token that is no declared flag fails on an
\* unrecognized flag; a parse that fails returns no value
C8_Validation ==
  pc = "done" =>
    /\ ~result.ok => result.value = None
    /\ SingleDefect(argv) =>
         LET d == argv[CHOOSE i \in Defects(argv) : TRUE] IN
           /\ d \in BareTokens \cup BadValueTokens => result = Failed("MalformedValue")
           /\ d \in UnknownTokens => result = Failed("UnrecognizedFlag")

C8_Witness ==
  /\ pc = "done"
  /\ Len(argv) = 4
  /\ SingleDefect(argv)
  /\ argv[3] \in BadValueTokens
  /\ result = Failed("MalformedValue")

\* C9: a parse that succeeds returns coverage = false, and a command line
\* with the token --coverage does not succeed
C9_CoverageNotSettable ==
  pc = "done" =>
    /\ result.ok => ~result.value[1].cargo_options.coverage
    /\ CoverageToken \in Flags(argv) => ~result.ok

C9_Witness ==
  /\ pc = "done"
  /\ CoverageToken \in Flags(argv)
  /\ Len(argv) = 3
  /\ result = Failed("UnrecognizedFlag")

\* a space before every token and nowhere else
SingleSpaced(s) ==
  \/ s = <<>>
  \/ /\ s[1] = " "
     /\ s[Len(s)] # " "
     /\ \A i \in 1..(Len(s) - 1) : ~(s[i] = " " /\ s[i + 1] = " ")

\* split gives the empty piece, then one token for each field that is set
TokenShape ==
  /\ SingleSpaced(str)
  /\ Len(argv) = Diff(case) + 1
  /\ argv[1] = <<>>
  /\ \A i \in 2..Len(argv) : argv[i] # <<>>

\* C10 as stated: coverage = false, both exclusions, no space in a string and
\* no empty unstable flag give a single-spaced flag string that parses back
C10_SplitOnSpaces ==
  pc = "done" /\ Valid(case) /\ ~case.cargo_options.coverage
    /\ NoSpaceCase(case) /\ NonEmptyFlags(case)
  => TokenShape /\ result = Parsed(case)

\* C10 amended: the same, for values none of whose unstable flags begins
\* with =
C10_SplitOnSpacesNoEq ==
  pc = "done" /\ Valid(case) /\ ~case.cargo_options.coverage
    /\ NoSpaceCase(case) /\ NonEmptyFlags(case) /\ NoLeadingEq(case)
  => TokenShape /\ result = Parsed(case)

C10_Witness ==
  /\ pc = "done"
  /\ Valid(case) /\ Tokenizable(case)
  /\ case.target_dir # None
  /\ case.cargo_options.unstable_flags # <<>>
  /\ TokenShape
  /\ result = Parsed(case)

====
